---- MODULE Spec2Model ----
(***************************************************************************)
(* Model of src/app.py, the Streamlit "Physics-based Verification Demo".   *)
(*                                                                         *)
(* Streamlit re-executes the whole script, top to bottom, on every user    *)
(* interaction.  Widget values (the selectbox, the file uploader) and      *)
(* st.session_state survive from one run to the next; everything the       *)
(* script prints, and every script-level variable (pdd_data,               *)
(* github_physics), belongs to one run only.  A button returns True only   *)
(* in the run its click started.  Each action below is therefore one       *)
(* complete run of the script, started by one user interaction.            *)
(*                                                                         *)
(* k-values are written as decimals with four places and are held here as  *)
(* integers counting ten-thousandths (0.05 is 500, 0.001 is 10).  Python   *)
(* holds them as IEEE-754 doubles; the comparison of line 148 is modelled  *)
(* with the rounding error of each double kept exactly (FloatErr).         *)
(***************************************************************************)
EXTENDS Integers, Sequences, FiniteSets, TLC

\* ---------------------------------------------------------------- bounds
\* reference k-values a synced document may carry: PddK-Span .. PddK+Span
Span == 12
\* inputs of the comparison when it is checked on its own
VerifySpan == 55

\* ------------------------------------------------------ program constants
\* ten-thousandths per unit: the fixed-point scale of the k-values
Scale == 10000
\* the literal 0.001 of line 148
Tolerance == 10
\* the literal 0.05 of line 62
PddK == 500
\* the literal 0.717 of line 64
GasDensity == 7170
\* significand width of a double minus one: 2^52 <= significand < 2^53
MantBits == 52

\* keys of the SECTORS dictionary, in insertion order
SECTORS == <<"13", "01", "03", "14", "15", "07">>

SectorIds == {SECTORS[i] : i \in 1..Len(SECTORS)}

\* options=list(SECTORS.keys()) of the selectbox
SelectOptionsWide == SectorIds \cup {"99"}

SelectOptions == SectorIds

\* names of the PDFs the user may upload; NoFile is the empty uploader
NoFile == "<none>"

Files == {"a.pdf", "b.pdf"}

\* ------------------------------------------------------------- documents
\* Python values the fetch can return or the session can hold.
\*   None          Python None (also what yaml.safe_load gives for an empty body)
\*   empty_mapping a falsy parse result such as {} or []
\*   scalar        a truthy parse result that is not a mapping ("hello")
\*   no_standards  a mapping without the key physics_standards
\*   no_field      physics_standards is a mapping without methane_decay_k
\*   full          physics_standards.methane_decay_k is the number k
\*   absent        the key 'physics' is not in st.session_state
Doc(kind, k) == [kind |-> kind, k |-> k]

PyNone == Doc("None", 0)

Absent == Doc("absent", 0)

KValues == (PddK - Span)..(PddK + Span)

ParsedDocs ==
    {PyNone, Doc("empty_mapping", 0), Doc("scalar", 0),
     Doc("no_standards", 0), Doc("no_field", 0)}
    \cup {Doc("full", k) : k \in KValues}

\* response.text: either text yaml cannot parse, or text that parses to a Doc
Bodies == {[syntax_ok |-> FALSE, doc |-> PyNone]}
          \cup {[syntax_ok |-> TRUE, doc |-> d] : d \in ParsedDocs}

EmptyBody == [syntax_ok |-> TRUE, doc |-> PyNone]

\* what requests.get does: raised = TRUE is a raised exception (no response)
Responses ==
    {[raised |-> TRUE, status |-> 0, body |-> EmptyBody]}
    \cup {[raised |-> FALSE, status |-> s, body |-> EmptyBody] : s \in {404, 500}}
    \cup {[raised |-> FALSE, status |-> 200, body |-> b] : b \in Bodies}

NoResponse == [raised |-> FALSE, status |-> -1, body |-> EmptyBody]

\* Python truthiness of a fetched value (the test `if github_physics:`)
Truthy(d) == d.kind \notin {"None", "empty_mapping", "absent"}

\* ------------------------------------------- the comparison of line 148
Abs(x) == IF x < 0 THEN -x ELSE x

Max(x, y) == IF x < y THEN y ELSE x

RECURSIVE Pow2(_)
Pow2(e) == IF e = 0 THEN 1 ELSE 2 * Pow2(e - 1)

RECURSIVE Pow2Mod(_, _)
Pow2Mod(e, m) == IF e = 0 THEN 1 % m ELSE (2 * Pow2Mod(e - 1, m)) % m

\* The double nearest to the decimal n/Scale (0 < n < Scale) is
\* M / 2^FloatExp(n) with 2^52 <= M < 2^53: FloatExp is 52 plus the number
\* of doublings that bring n/Scale into [1, 2).
RECURSIVE Doublings(_)
Doublings(n) == IF n = 0 \/ n >= Scale THEN 0 ELSE 1 + Doublings(2 * n)

FloatExp(n) == MantBits + Doublings(n)

\* Round-to-nearest-even of n * 2^FloatExp(n) / Scale: the double is
\* n/Scale + FloatErr(n) / (Scale * 2^FloatExp(n)).  Only the remainder of
\* the division and the parity of the quotient are needed, so the
\* arithmetic stays modulo 2*Scale.
FloatErr(n) ==
    LET x   == (n * Pow2Mod(FloatExp(n), 2 * Scale)) % (2 * Scale)
        r   == x % Scale
        odd == x >= Scale
    IN  IF 2 * r < Scale THEN -r
        ELSE IF 2 * r > Scale THEN Scale - r
        ELSE IF odd THEN Scale - r ELSE -r

\* abs(pdd_k - std_k) < 0.001 on doubles.  When the decimal difference is
\* not the tolerance itself it is at least 1/Scale away from it, which no
\* rounding (relative error 2^-53) can bridge.  When it is exactly the
\* tolerance, the operands are within a factor of two of each other (all
\* modelled k-values are near PddK), the subtraction of the two doubles is
\* exact, and the outcome is decided by the three rounding errors, brought
\* to the common denominator Scale * 2^K.
NoAbsBelowTol(pdd_k, std_k) == pdd_k - std_k < Tolerance

AbsDiffBelowTol(pdd_k, std_k) ==
    LET d  == Abs(pdd_k - std_k)
        hi == Max(pdd_k, std_k)
        lo == hi - d
        K  == Max(FloatExp(hi), Max(FloatExp(lo), FloatExp(Tolerance)))
        E(n) == FloatErr(n) * Pow2(K - FloatExp(n))
    IN  IF d # Tolerance THEN d < Tolerance
        ELSE E(hi) - E(lo) < E(Tolerance)

Verdicts == {"MATCH", "FAIL"}

\* COMPARISON LOGIC: the metric shown under "Physics Integrity"
Compare(pdd_k, std_k) ==
    IF AbsDiffBelowTol(pdd_k, std_k) THEN "MATCH" ELSE "FAIL"

\* ------------------------------------------------------ backend functions
\* sidebar lines of the Debug Terminal and their st.sidebar level
Level(line) ==
    CASE line = "URL Status: 200 (Found)" -> "success"
      [] line = "Check: 1. Username 2. Repo Name 3. Branch 4. Filename" -> "info"
      [] OTHER -> "error"

\* the error lines of a sidebar transcript: the class of failure it reports
ErrorClass(sidebar_lines) ==
    SelectSeq(sidebar_lines, LAMBDA l : Level(l) = "error")

\* get_github_physics, given what requests.get does for the URL it builds.
\* A yaml.YAMLError raised by safe_load is inside the try block and is
\* caught by `except Exception`, after the 200 line was already printed.
get_github_physics(sector_id, response) ==
    IF response.raised
    THEN [ret |-> PyNone, sidebar |-> <<"Connection Error">>]
    ELSE IF response.status = 200
    THEN IF response.body.syntax_ok
         THEN [ret |-> response.body.doc,
               sidebar |-> <<"URL Status: 200 (Found)">>]
         ELSE [ret |-> PyNone,
               sidebar |-> <<"URL Status: 200 (Found)", "Connection Error">>]
    ELSE IF response.status = 404
    THEN [ret |-> PyNone,
          sidebar |-> <<"URL Status: 404 (File Not Found)",
                        "Check: 1. Username 2. Repo Name 3. Branch 4. Filename">>]
    ELSE [ret |-> PyNone, sidebar |-> <<"URL Status: other">>]

\* simulate_pdd_extraction: the same record for every file and sector
Unset == [defined |-> FALSE, project_id |-> "", extracted_k_value |-> 0,
          methodology |-> "", gas_density |-> 0]

simulate_pdd_extraction(uploaded_file, sector_id) ==
    [defined |-> TRUE, project_id |-> "VCS-2491", extracted_k_value |-> PddK,
     methodology |-> "ACM0001", gas_density |-> GasDensity]

\* lines 103-111: pdd_data is bound only when a file is in the uploader
Extraction(file, sector_id) ==
    IF file # NoFile THEN simulate_pdd_extraction(file, sector_id) ELSE Unset

\* d['physics_standards']['methane_decay_k'] (lines 121 and 139): the value,
\* or the exception the subscript raises
LookupDefaultZero(d) ==
    IF d.kind = "full" THEN [exc |-> "none", val |-> d.k]
    ELSE [exc |-> "none", val |-> 0]

Lookup(d) ==
    CASE d.kind = "full" -> [exc |-> "none", val |-> d.k]
      [] d.kind \in {"no_standards", "no_field", "absent"} ->
            [exc |-> "KeyError", val |-> 0]
      [] OTHER -> [exc |-> "TypeError", val |-> 0]

\* ------------------------------------------------------------------ state
VARIABLES
    selected_sector_id,  \* value of the "Select Sectoral Scope" selectbox
    pdd_file,            \* value of the file uploader (a name, or NoFile)
    physics,             \* st.session_state['physics'], or Absent
    synced_sector,       \* the sector_id the stored physics was fetched for
    pdd_data,            \* script variable pdd_data of the last run
    clicked,             \* the button that started the last run
    request,             \* sector_id passed to get_github_physics in the last run
    response,            \* what requests.get did in the last run
    github_physics,      \* script variable github_physics of the last run
    sidebar,             \* Debug Terminal lines printed by the last run
    sync_msg,            \* line printed by the sync handler in the last run
    outcome,             \* what the audit handler printed in the last run
    exception,           \* exception that ended the last run, if any
    audit_button,        \* whether the last run got as far as rendering line 135
    cmpA, cmpB, cmpOut   \* inputs and result of the comparison taken alone

vars == <<selected_sector_id, pdd_file, physics, synced_sector, pdd_data,
          clicked, request, response, github_physics, sidebar, sync_msg,
          outcome, exception, audit_button, cmpA, cmpB, cmpOut>>

session == <<selected_sector_id, pdd_file, physics, synced_sector, pdd_data,
             clicked, request, response, github_physics, sidebar, sync_msg,
             outcome, exception, audit_button>>

NoRequest == "<none>"

\* ------------------------------------------------------------ the handlers
\* lines 118-119: what st.session_state['physics'] holds after the handler
SyncStoreAlways(fetched, old) == fetched

SyncStoreOnce(fetched, old) ==
    IF Truthy(fetched) /\ old.kind = "absent" THEN fetched ELSE old

SyncStore(fetched, old) == IF Truthy(fetched) THEN fetched ELSE old

\* line 136: 'physics' in st.session_state and pdd_file
AuditGuardEither(stored, file) == stored.kind # "absent" \/ file # NoFile

AuditGuard(stored, file) == stored.kind # "absent" /\ file # NoFile

\* lines 136-159: the verdict or error the audit handler ends in
AuditHandler(stored, file, data) ==
    IF AuditGuard(stored, file)
    THEN IF ~data.defined
         THEN [outcome |-> "none", exception |-> "NameError"]
         ELSE LET std == Lookup(stored)
              IN  IF std.exc # "none"
                  THEN [outcome |-> "none", exception |-> std.exc]
                  ELSE [outcome |-> Compare(data.extracted_k_value, std.val),
                        exception |-> "none"]
    ELSE [outcome |-> "Missing Data", exception |-> "none"]

\* one run of the script in which no button is pressed
PlainRun(sector_id, file) ==
    /\ selected_sector_id' = sector_id
    /\ pdd_file' = file
    /\ pdd_data' = Extraction(file, sector_id)
    /\ clicked' = "none"
    /\ request' = NoRequest
    /\ response' = NoResponse
    /\ github_physics' = PyNone
    /\ sidebar' = <<>>
    /\ sync_msg' = "none"
    /\ outcome' = "none"
    /\ exception' = "none"
    /\ audit_button' = TRUE
    /\ UNCHANGED <<physics, synced_sector, cmpA, cmpB, cmpOut>>

\* ---------------------------------------------------------------- actions
\* the user picks an option of the selectbox
SelectSector(s) ==
    /\ s \in SelectOptions
    /\ PlainRun(s, pdd_file)

\* the user puts a PDF into the uploader (replacing the one there, if any)
Upload(f) ==
    /\ f \in Files
    /\ PlainRun(selected_sector_id, f)

\* the user clears the uploader
RemoveFile ==
    /\ pdd_file # NoFile
    /\ PlainRun(selected_sector_id, NoFile)

\* the user clicks "Sync with GitHub Live"; resp is what the network does
SyncClick(resp) ==
    LET fetch  == get_github_physics(selected_sector_id, resp)
        stored == SyncStore(fetch.ret, physics)
    IN  /\ resp \in Responses
        /\ clicked' = "sync"
        /\ request' = selected_sector_id
        /\ response' = resp
        /\ github_physics' = fetch.ret
        /\ sidebar' = fetch.sidebar
        /\ pdd_data' = Extraction(pdd_file, selected_sector_id)
        /\ physics' = stored
        /\ synced_sector' =
              IF Truthy(fetch.ret) THEN selected_sector_id ELSE synced_sector
        /\ sync_msg' = IF Truthy(fetch.ret) THEN "Science Standard Synced"
                       ELSE "Check Debug Terminal"
        \* line 121 subscripts the fetched value after it was stored
        /\ exception' = IF Truthy(fetch.ret) THEN Lookup(fetch.ret).exc
                        ELSE "none"
        /\ audit_button' = (exception' = "none")
        /\ outcome' = "none"
        /\ UNCHANGED <<selected_sector_id, pdd_file, cmpA, cmpB, cmpOut>>

\* the user clicks "Run Forensic PINN Audit" (the button must be on the page)
AuditClick ==
    LET data == Extraction(pdd_file, selected_sector_id)
        res  == AuditHandler(physics, pdd_file, data)
    IN  /\ audit_button
        /\ clicked' = "audit"
        /\ pdd_data' = data
        /\ request' = NoRequest
        /\ response' = NoResponse
        /\ github_physics' = PyNone
        /\ sidebar' = <<>>
        /\ sync_msg' = "none"
        /\ outcome' = res.outcome
        /\ exception' = res.exception
        /\ audit_button' = TRUE
        /\ UNCHANGED <<selected_sector_id, pdd_file, physics, synced_sector,
                       cmpA, cmpB, cmpOut>>

Init ==
    /\ selected_sector_id = SECTORS[1]
    /\ pdd_file = NoFile
    /\ physics = Absent
    /\ synced_sector = NoRequest
    /\ pdd_data = Unset
    /\ clicked = "none"
    /\ request = NoRequest
    /\ response = NoResponse
    /\ github_physics = PyNone
    /\ sidebar = <<>>
    /\ sync_msg = "none"
    /\ outcome = "none"
    /\ exception = "none"
    /\ audit_button = TRUE
    /\ cmpA = PddK
    /\ cmpB = PddK
    /\ cmpOut = "none"

Next ==
    \/ \E s \in SelectOptions : SelectSector(s)
    \/ \E f \in Files : Upload(f)
    \/ RemoveFile
    \/ \E resp \in Responses : SyncClick(resp)
    \/ AuditClick

Spec == Init /\ [][Next]_vars

\* ------------------------------------- the comparison checked on its own
VerifyValues == (PddK - VerifySpan)..(PddK + VerifySpan)

\* a claimed value a and a reference value b are handed to the comparison
Verify ==
    /\ cmpOut = "none"
    /\ cmpOut' = Compare(cmpA, cmpB)
    /\ UNCHANGED <<cmpA, cmpB>>
    /\ UNCHANGED session

\* another reference value is taken for the same claimed value
Redraw ==
    /\ cmpOut # "none"
    /\ cmpB' \in VerifyValues
    /\ cmpOut' = "none"
    /\ UNCHANGED cmpA
    /\ UNCHANGED session

InitVerify ==
    /\ Init!1 /\ Init!2 /\ Init!3 /\ Init!4 /\ Init!5 /\ Init!6 /\ Init!7
    /\ Init!8 /\ Init!9 /\ Init!10 /\ Init!11 /\ Init!12 /\ Init!13 /\ Init!14
    /\ cmpA \in VerifyValues
    /\ cmpB \in VerifyValues
    /\ cmpOut = "none"

NextVerify == Verify \/ Redraw

SpecVerify == InitVerify /\ [][NextVerify]_vars

\* ================================================================ claims
HasReference == physics.kind # "absent"

HasClaim == pdd_file # NoFile

\* C1: a verdict (MATCH or FAIL) is on the page only if a reference is
\* stored in the session and a PDD is in the uploader; an audit click with
\* either of them missing ends in the "Missing Data" error, never a verdict.
C1_VerdictNeedsBoth ==
    /\ outcome \in Verdicts => HasReference /\ HasClaim /\ pdd_data.defined
    /\ (clicked = "audit" /\ ~(HasReference /\ HasClaim))
          => outcome = "Missing Data" /\ exception = "none"

C1_Witness ==
    /\ clicked = "audit"
    /\ HasReference
    /\ ~HasClaim
    /\ outcome = "Missing Data"

\* C2 as stated: the comparison returns MATCH exactly when |a-b| <= t, so a
\* pair whose difference equals the tolerance is a MATCH.
C2_MatchIffWithinTolerance ==
    cmpOut # "none" =>
        (cmpOut = "MATCH" <=> Abs(cmpA - cmpB) <= Tolerance)

\* C2 amended: the comparison returns MATCH whenever |a-b| < t and FAIL
\* whenever |a-b| > t; at |a-b| = t a MATCH is not guaranteed, and claimed
\* 0.05 against reference 0.049 is a FAIL.
C2_MatchBelowFailAbove ==
    cmpOut # "none" =>
        /\ Abs(cmpA - cmpB) < Tolerance => cmpOut = "MATCH"
        /\ Abs(cmpA - cmpB) > Tolerance => cmpOut = "FAIL"
        /\ (cmpA = PddK /\ cmpB = PddK - Tolerance) => cmpOut = "FAIL"

C2_Witness ==
    /\ cmpOut = "FAIL"
    /\ cmpA = PddK
    /\ cmpB = PddK - Tolerance

\* the fetch of a response failed: an exception, or a status other than 200
FetchFailed(r) == r.raised \/ r.status # 200

\* C3: a sync whose fetch fails (404, another non-200 status, a raised
\* exception) leaves the stored reference, the uploaded claim and the
\* selected sector as they were, and the run completes, so that every
\* button is on the page for the next action.
C3_FailedSyncKeepsSession ==
    [][(clicked' = "sync" /\ FetchFailed(response')) =>
          /\ physics' = physics
          /\ synced_sector' = synced_sector
          /\ pdd_file' = pdd_file
          /\ selected_sector_id' = selected_sector_id
          /\ exception' = "none"
          /\ audit_button']_vars

C3_Witness ==
    /\ clicked = "sync"
    /\ ~response.raised
    /\ response.status = 404
    /\ physics = Absent
    /\ HasClaim
    /\ audit_button

\* the three failure causes the fetch is to keep apart
Cause(r) ==
    IF r.raised THEN "NetworkError"
    ELSE IF r.status = 404 THEN "NotFound"
    ELSE IF r.status = 200 /\ ~r.body.syntax_ok THEN "ParseError"
    ELSE "other"

FailureCauses == {"NotFound", "NetworkError", "ParseError"}

\* C4: two fetches that fail for different causes among NotFound,
\* NetworkError and ParseError never hand the caller the same result value
\* together with the same class of error report.
C4_FailuresDistinguishable ==
    [][(/\ clicked = "sync"
        /\ clicked' = "sync"
        /\ Cause(response) \in FailureCauses
        /\ Cause(response') \in FailureCauses
        /\ Cause(response) # Cause(response'))
          => <<github_physics, ErrorClass(sidebar)>>
               # <<github_physics', ErrorClass(sidebar')>>]_vars

\* a 200 body that is not a reference document: a YAML syntax error, an
\* empty body, or YAML that parses to something that is not a mapping
Unparsable(b) == ~b.syntax_ok \/ b.doc.kind \in {"None", "scalar"}

\* C5: a 200 response whose body is not a parsable reference document is
\* never reported as a success and never stored as the session's reference.
C5_UnparsableNeverSuccess ==
    (clicked = "sync" /\ ~response.raised /\ response.status = 200
        /\ Unparsable(response.body))
      => /\ sync_msg # "Science Standard Synced"
         /\ physics.kind \notin {"None", "scalar"}
         /\ ErrorClass(sidebar) # <<>>

\* C6: when the stored reference lacks physics_standards.methane_decay_k the
\* audit ends in the error raised by the lookup: no verdict is produced (so
\* no zero stood in for the value), and the audit action leaves the stored
\* reference and the uploaded claim as they were.
C6_MissingFieldIsAnError ==
    /\ []((clicked = "audit" /\ HasClaim
             /\ physics.kind \in {"scalar", "no_standards", "no_field"})
            => outcome = "none" /\ exception \in {"KeyError", "TypeError"})
    /\ [][clicked' = "audit" =>
            /\ physics' = physics
            /\ synced_sector' = synced_sector
            /\ pdd_file' = pdd_file
            /\ selected_sector_id' = selected_sector_id]_vars

C6_Witness ==
    /\ clicked = "audit"
    /\ HasClaim
    /\ physics.kind = "no_field"
    /\ exception = "KeyError"
    /\ outcome = "none"

\* a sync step whose fetch returned a usable document
SyncedStep ==
    /\ clicked' = "sync"
    /\ ~response'.raised
    /\ response'.status = 200
    /\ response'.body.syntax_ok
    /\ Truthy(response'.body.doc)

\* an upload step: a file is put into the uploader
UploadStep ==
    /\ clicked' = "none"
    /\ pdd_file' # NoFile
    /\ pdd_file' # pdd_file

\* C7: a successful (re-)sync replaces the stored reference, clears the
\* verdict and keeps the claim; a (re-)upload replaces the claim, clears the
\* verdict and keeps the reference; after either, with reference and claim
\* present, the audit button is on the page and one audit click gives a
\* verdict.
C7_RedoResetsDownstreamOnly ==
    /\ [][SyncedStep =>
            /\ physics' = response'.body.doc
            /\ synced_sector' = selected_sector_id
            /\ outcome' = "none"
            /\ pdd_file' = pdd_file]_vars
    /\ [][UploadStep =>
            /\ pdd_data' = simulate_pdd_extraction(pdd_file', selected_sector_id)
            /\ outcome' = "none"
            /\ physics' = physics
            /\ audit_button']_vars
    /\ []((clicked = "sync" /\ physics.kind = "full"
             /\ sync_msg = "Science Standard Synced") => audit_button)
    /\ []((clicked = "audit" /\ physics.kind = "full" /\ HasClaim)
            => outcome \in Verdicts)

C7_Witness ==
    /\ clicked = "sync"
    /\ sync_msg = "Science Standard Synced"
    /\ physics = Doc("full", PddK + 1)
    /\ pdd_file = "b.pdf"
    /\ outcome = "none"
    /\ audit_button

\* C8: every fetch that is attempted is for a key of SECTORS, namely the
\* sector selected at the time.
C8_FetchOnlyRegisteredSectors ==
    /\ request # NoRequest => request \in SectorIds
    /\ clicked = "sync" => request = selected_sector_id
    /\ selected_sector_id \in SectorIds

C8_Witness ==
    /\ clicked = "sync"
    /\ request = "07"

\* C9: with reference and claim present and carrying the field, the audit
\* gives MATCH when the difference of the two k-values is strictly below
\* 0.001 and FAIL otherwise.
C9_MatchIffStrictlyBelow ==
    (clicked = "audit" /\ HasClaim /\ physics.kind = "full")
      => outcome = IF Abs(pdd_data.extracted_k_value - physics.k) < Tolerance
                   THEN "MATCH" ELSE "FAIL"

\* C10: a verdict is produced only against a reference that was fetched for
\* the sector that is selected when the verdict is produced.
C10_VerdictUsesSelectedSector ==
    outcome \in Verdicts => synced_sector = selected_sector_id

====
